---------------------------- MODULE Spec2Model ----------------------------
(***************************************************************************)
(* A model of polargraph_convert.py: the darkness-to-waveform transform    *)
(* (calculate_wave_params), the row path generator (generate_row_path),    *)
(* the path serializer (points_to_path_commands), the document assembler   *)
(* (generate_svg) and the command line entry point (main).                 *)
(*                                                                         *)
(* Numbers.  Python floats are modelled as fixed-point integers counting   *)
(* ten-thousandths (Unit = 1.0).  Products are rounded to the nearest      *)
(* ten-thousandth, as a float product is rounded to the nearest float.     *)
(* Pixel x-coordinates and row numbers are Python ints and stay integers.  *)
(* Strings are sequences of one-character strings.                         *)
(***************************************************************************)
EXTENDS Integers, Sequences, FiniteSets, TLC

VARIABLES
    cfg,        \* the converter's attributes (self.line_spacing, ...)
    img,        \* the preprocessed grayscale image: width, height, px
    pc,         \* where the running call is
    row,        \* generate_row_path's row / generate_svg's loop variable
    x,          \* generate_row_path's loop variable
    points,     \* generate_row_path's accumulating list of (x, y)
    svg_lines,  \* generate_svg's list of document lines
    out_file,   \* what the output path holds
    stderr,     \* the error messages printed so far
    exit_code,  \* the process's exit code, NoExit while it runs
    wave,       \* the last call of calculate_wave_params: arguments and result
    path_d,     \* the last call of points_to_path_commands: argument and result
    slots       \* row paths computed ahead of assembly, by row number

vars == <<cfg, img, pc, row, x, points, svg_lines, out_file, stderr,
          exit_code, wave, path_d, slots>>

----------------------------------------------------------------------------
(* Fixed-point arithmetic *)

\* 1.0 in fixed point.
Unit == 10000

\* pi in fixed point, for math.sin's range reduction.
Pi == 31416

Abs(a) == IF a < 0 THEN -a ELSE a

\* n / d rounded to the nearest integer, halves away from zero (d > 0).
RDiv(n, d) ==
    IF n >= 0 THEN (2 * n + d) \div (2 * d)
    ELSE -((2 * (-n) + d) \div (2 * d))

\* The float product a * b of two fixed-point numbers.
Mul(a, b) == RDiv(a * b, Unit)

\* sin on [0, pi/2]: the Taylor polynomial u - u^3/3! + u^5/5! - u^7/7!,
\* in Horner form so that no intermediate value leaves 32 bits.
SinQuadrant(u) ==
    LET u2 == Mul(u, u)
        a  == Unit - RDiv(u2, 42)
        b  == Unit - RDiv(Mul(u2, a), 20)
        c  == Unit - RDiv(Mul(u2, b), 6)
    IN  Mul(u, c)

\* math.sin(t) for a fixed-point t: reduce to one period, then one quadrant.
Sin(t) ==
    LET r == t % (2 * Pi)
    IN  IF r <= Pi \div 2 THEN SinQuadrant(r)
        ELSE IF r <= Pi THEN SinQuadrant(Pi - r)
        ELSE IF r <= Pi + Pi \div 2 THEN -SinQuadrant(r - Pi)
        ELSE -SinQuadrant(2 * Pi - r)

----------------------------------------------------------------------------
(* Class constants, in fixed point *)

MIN_DARKNESS_THRESHOLD == 200
FREQUENCY_BASE == 5000
FREQUENCY_SCALE == 15000
ORGANIC_X_FREQUENCY == 500
ORGANIC_Y_FREQUENCY == 1000
ORGANIC_NOISE_SCALE == 2000
ORGANIC_AMPLITUDE_VAR == 3000
ORGANIC_FREQUENCY_VAR == 2000
WAVE_FREQUENCY_SCALE == 1000

\* The defaults of __init__ and of the command line.
DefaultLineSpacing == 20000
DefaultMaxAmplitude == 30000
DefaultWhiteThreshold == 250

\* The largest 8-bit brightness.
MaxBrightness == 255

----------------------------------------------------------------------------
(* calculate_wave_params *)

\* The noise term of organic mode, sin(x*0.05 + row*0.1) * 0.2.
OrganicNoise(xx, r) ==
    Mul(Sin(xx * ORGANIC_X_FREQUENCY + r * ORGANIC_Y_FREQUENCY),
        ORGANIC_NOISE_SCALE)

\* A variant of CalculateWaveParams: organic mode scales by the noise terms
\* alone, without the "1.0 +".
CalculateWaveParamsNoOne(c, darkness, xx, r) ==
    IF darkness < MIN_DARKNESS_THRESHOLD THEN <<0, 0>>
    ELSE
        LET amplitude == Mul(c.max_amplitude, darkness)
            frequency_factor == FREQUENCY_BASE + Mul(darkness, FREQUENCY_SCALE)
        IN  IF c.organic_mode
            THEN LET organic_noise == OrganicNoise(xx, r)
                 IN  <<Mul(amplitude, Mul(organic_noise, ORGANIC_AMPLITUDE_VAR)),
                       Mul(frequency_factor,
                           Mul(organic_noise, ORGANIC_FREQUENCY_VAR))>>
            ELSE <<amplitude, frequency_factor>>

\* calculate_wave_params(darkness, x, row) under configuration c:
\* <<amplitude, frequency_factor>>.
CalculateWaveParams(c, darkness, xx, r) ==
    IF darkness < MIN_DARKNESS_THRESHOLD THEN <<0, 0>>
    ELSE
        LET amplitude == Mul(c.max_amplitude, darkness)
            frequency_factor == FREQUENCY_BASE + Mul(darkness, FREQUENCY_SCALE)
        IN  IF c.organic_mode
            THEN LET organic_noise == OrganicNoise(xx, r)
                 IN  <<Mul(amplitude,
                           Unit + Mul(organic_noise, ORGANIC_AMPLITUDE_VAR)),
                       Mul(frequency_factor,
                           Unit + Mul(organic_noise, ORGANIC_FREQUENCY_VAR))>>
            ELSE <<amplitude, frequency_factor>>

----------------------------------------------------------------------------
(* generate_row_path *)

\* A variant of Pixel: the row index taken as counting from 1.
PixelRowAbove(g, xx, r) == g.px[IF r = 0 THEN 1 ELSE r][xx + 1]

\* pixels[x, row] of image g (x and row count from 0).
Pixel(g, xx, r) == g.px[r + 1][xx + 1]

\* y_base = row * self.line_spacing
YBase(c, r) == r * c.line_spacing

\* A variant of Darkness: brightness divided by 256.
DarknessOver256(brightness) == Unit - RDiv(brightness * Unit, MaxBrightness + 1)

\* darkness = 1.0 - (brightness / 255.0)
Darkness(brightness) == Unit - RDiv(brightness * Unit, MaxBrightness)

\* The point a non-white pixel contributes.
WavePoint(c, brightness, xx, r) ==
    LET wp == CalculateWaveParams(c, Darkness(brightness), xx, r)
        amplitude == wp[1]
        frequency_factor == wp[2]
        wave_offset ==
            Mul(amplitude, Sin(Mul(xx * frequency_factor, WAVE_FREQUENCY_SCALE)))
    IN  <<xx, YBase(c, r) + wave_offset>>

\* A variant of IsWhite: a pixel exactly at the threshold is not white.
IsWhiteStrict(c, brightness) == brightness > c.white_threshold

\* Whether the pixel takes the white branch.
IsWhite(c, brightness) == brightness >= c.white_threshold

\* A variant of AppendsFlat: no de-duplication, every white pixel appends.
AppendsFlatAlways(c, pts, r) == TRUE

\* Whether the white branch appends its flat point.
AppendsFlat(c, pts, r) == Len(pts) = 0 \/ pts[Len(pts)][2] # YBase(c, r)

\* A variant of RowStep: a suppressed white pixel moves the last flat point
\* to its own column instead of leaving the list alone.
RowStepRewrite(c, g, pts, xx, r) ==
    LET brightness == Pixel(g, xx, r)
    IN  IF IsWhite(c, brightness)
        THEN IF AppendsFlat(c, pts, r)
             THEN Append(pts, <<xx, YBase(c, r)>>)
             ELSE [pts EXCEPT ![Len(pts)] = <<xx, YBase(c, r)>>]
        ELSE Append(pts, WavePoint(c, brightness, xx, r))

\* A variant of RowStep: the de-duplication applies to both branches.
RowStepDedupAll(c, g, pts, xx, r) ==
    LET brightness == Pixel(g, xx, r)
        p == IF IsWhite(c, brightness) THEN <<xx, YBase(c, r)>>
             ELSE WavePoint(c, brightness, xx, r)
    IN  IF p[2] = YBase(c, r) /\ ~AppendsFlat(c, pts, r) THEN pts
        ELSE Append(pts, p)

\* One iteration of the column loop: the list after column xx.
RowStep(c, g, pts, xx, r) ==
    LET brightness == Pixel(g, xx, r)
    IN  IF IsWhite(c, brightness)
        THEN IF AppendsFlat(c, pts, r)
             THEN Append(pts, <<xx, YBase(c, r)>>)
             ELSE pts
        ELSE Append(pts, WavePoint(c, brightness, xx, r))

\* The list after columns 0 .. n-1.
RECURSIVE RowPrefix(_, _, _, _)
RowPrefix(c, g, r, n) ==
    IF n = 0 THEN <<>>
    ELSE RowStep(c, g, RowPrefix(c, g, r, n - 1), n - 1, r)

\* generate_row_path(img, row, width)
GenerateRowPath(c, g, r, w) == RowPrefix(c, g, r, w)

----------------------------------------------------------------------------
(* points_to_path_commands *)

DigitChars == <<"0", "1", "2", "3", "4", "5", "6", "7", "8", "9">>

\* The decimal digits of a natural number.
RECURSIVE Digits(_)
Digits(n) ==
    IF n < 10 THEN <<DigitChars[n + 1]>>
    ELSE Append(Digits(n \div 10), DigitChars[(n % 10) + 1])

\* The number of hundredths nearest to |v|, a tie going to the even one
\* (the rounding of the format specification .2f).
Hundredths(v) ==
    LET q == Abs(v) \div (Unit \div 100)
        rem == Abs(v) % (Unit \div 100)
        half == Unit \div 200
    IN  IF rem > half \/ (rem = half /\ q % 2 = 1) THEN q + 1 ELSE q

\* f"{v:.2f}" for a fixed-point v: sign, integer digits, point, two digits.
\* A negative value keeps its sign when it rounds to zero ("-0.00").
Fmt2(v) ==
    LET h == Hundredths(v)
    IN  (IF v < 0 THEN <<"-">> ELSE <<>>)
        \o Digits(h \div 100)
        \o <<".", DigitChars[((h \div 10) % 10) + 1], DigitChars[(h % 10) + 1]>>

\* f"M {x:.2f},{y:.2f}" and f"L {x:.2f},{y:.2f}" for a point (int x, float y).
Command(letter, p) ==
    <<letter, " ">> \o Fmt2(p[1] * Unit) \o <<",">> \o Fmt2(p[2])

\* " ".join(commands)
RECURSIVE JoinSpace(_)
JoinSpace(commands) ==
    IF Len(commands) = 0 THEN <<>>
    ELSE IF Len(commands) = 1 THEN commands[1]
    ELSE commands[1] \o <<" ">> \o JoinSpace(Tail(commands))

\* A variant of PointsToPathCommands: the line commands start at the first
\* point (points instead of points[1:]).
PointsToPathCommandsAll(pts) ==
    IF Len(pts) = 0 THEN <<>>
    ELSE JoinSpace(<<Command("M", pts[1])>>
                   \o [i \in 1 .. Len(pts) |-> Command("L", pts[i])])

\* points_to_path_commands(points)
PointsToPathCommands(pts) ==
    IF Len(pts) = 0 THEN <<>>
    ELSE JoinSpace(<<Command("M", pts[1])>>
                   \o [i \in 1 .. Len(pts) - 1 |-> Command("L", pts[i + 1])])

----------------------------------------------------------------------------
(* generate_svg *)

\* A line of the document: its kind and the text that varies.
Line(kind, text) == [kind |-> kind, text |-> text]

\* svg_lines as the document starts: the XML declaration, the svg element
\* with width and svg_height = height * line_spacing, and the group.
SvgHeader(c, g) ==
    <<Line("xml", <<>>),
      Line("svg", Digits(g.width) \o <<" ">> \o Fmt2(g.height * c.line_spacing)),
      Line("g", <<>>)>>

\* A variant of AppendPath: a single point, which draws nothing, is skipped.
AppendPathVisible(lines, pts) ==
    IF Len(pts) > 1
    THEN Append(lines, Line("path", PointsToPathCommands(pts)))
    ELSE lines

\* What the row loop does with a row's points: a path element when the
\* list and its path string are not empty, nothing otherwise.
AppendPath(lines, pts) ==
    IF Len(pts) # 0
    THEN LET d == PointsToPathCommands(pts)
         IN  IF Len(d) # 0 THEN Append(lines, Line("path", d)) ELSE lines
    ELSE lines

\* One iteration of the row loop: svg_lines after row r.
SvgRow(c, g, lines, r) == AppendPath(lines, GenerateRowPath(c, g, r, g.width))

\* svg_lines.extend(['  </g>', '</svg>'])
SvgClose(lines) == lines \o <<Line("/g", <<>>), Line("/svg", <<>>)>>

\* svg_lines after rows 0 .. n-1.
RECURSIVE SvgRows(_, _, _)
SvgRows(c, g, n) ==
    IF n = 0 THEN SvgHeader(c, g)
    ELSE SvgRow(c, g, SvgRows(c, g, n - 1), n - 1)

\* The complete document generate_svg writes for image g.
SvgDocument(c, g) == SvgClose(SvgRows(c, g, g.height))

----------------------------------------------------------------------------
(* Bounds and inputs *)

\* generate_row_path is called on images up to this wide and this high.
RowMaxWidth == 3
RowMaxHeight == 2

\* main and generate_svg convert images up to this wide and this high.
SvgMaxWidth == 2
SvgMaxHeight == 2

\* calculate_wave_params is called at positions up to these.
WaveMaxX == 130
WaveMaxRow == 2

\* points_to_path_commands is called on lists up to this long.
PathMaxPoints == 2

\* Brightness levels on both sides of the white threshold and of the
\* darkness cutoff: black, mid grey, 249, 250, white.
RowLevels == {0, 249, DefaultWhiteThreshold, MaxBrightness}
WaveLevels == {0, 64, 128, 249, DefaultWhiteThreshold, MaxBrightness}
SvgLevels == {0, MaxBrightness}

Config(ls, amp, org, wt) ==
    [line_spacing |-> ls, max_amplitude |-> amp, organic_mode |-> org,
     white_threshold |-> wt]

\* Configurations of the row generator: the default threshold, one below
\* the darkness cutoff's brightness and one above it; amplitude 0 and 3.0.
RowConfigs ==
    {Config(DefaultLineSpacing, amp, org, wt) :
        amp \in {0, DefaultMaxAmplitude}, org \in BOOLEAN,
        wt \in {128, DefaultWhiteThreshold, DefaultWhiteThreshold + 2}}

\* Configurations of direct calls of calculate_wave_params: __init__
\* validates nothing, so negative amplitudes are among them.
WaveConfigs ==
    {Config(DefaultLineSpacing, amp, org, DefaultWhiteThreshold) :
        amp \in {-DefaultMaxAmplitude, 0, DefaultMaxAmplitude,
                 2 * DefaultMaxAmplitude},
        org \in BOOLEAN}

\* Configurations of the command line runs.
CliConfigs ==
    {Config(DefaultLineSpacing, DefaultMaxAmplitude, org, DefaultWhiteThreshold) :
        org \in BOOLEAN}

Image(w, h, px) == [width |-> w, height |-> h, px |-> px]

\* Every image of the given size over the given brightness levels.
Images(w, h, levels) == {Image(w, h, px) : px \in [1 .. h -> [1 .. w -> levels]]}

\* Images whose rows are all the same scan line.
StripeImages(w, h, levels) ==
    {Image(w, h, [r \in 1 .. h |-> line]) : line \in [1 .. w -> levels]}

RowImages ==
    UNION {StripeImages(w, h, RowLevels) :
              w \in 0 .. RowMaxWidth, h \in 1 .. RowMaxHeight}

SvgImages ==
    UNION {Images(w, h, SvgLevels) :
              w \in 0 .. SvgMaxWidth, h \in 0 .. SvgMaxHeight}

\* Values of the variables a run does not use.
NoImage == Image(0, 0, <<>>)
NoCall == [called |-> FALSE]
NoExit == -1
Absent == [exists |-> FALSE, content |-> <<>>]
OldFile == [exists |-> TRUE, content |-> <<Line("old", <<>>)>>]

----------------------------------------------------------------------------
(* A direct call of calculate_wave_params *)

\* The record of a call of calculate_wave_params and of what it returned.
WaveCall(darkness, xx, r) ==
    [called |-> TRUE, darkness |-> darkness, x |-> xx, row |-> r,
     result |-> CalculateWaveParams(cfg, darkness, xx, r)]

\* The arguments are drawn here: the darkness of a brightness level, a
\* column and a row.
WaveInit ==
    /\ cfg \in WaveConfigs
    /\ \E b \in WaveLevels, xx \in 0 .. WaveMaxX, r \in 0 .. WaveMaxRow :
           wave = [called |-> FALSE, darkness |-> Darkness(b), x |-> xx,
                   row |-> r]
    /\ img = NoImage /\ pc = "call" /\ row = 0 /\ x = 0 /\ points = <<>>
    /\ svg_lines = <<>> /\ out_file = Absent /\ stderr = <<>>
    /\ exit_code = NoExit /\ path_d = NoCall /\ slots = <<>>

CallCalculateWaveParams ==
    /\ pc = "call"
    /\ wave' = WaveCall(wave.darkness, wave.x, wave.row)
    /\ pc' = "returned"
    /\ UNCHANGED <<cfg, img, row, x, points, svg_lines, out_file, stderr,
                   exit_code, path_d, slots>>

WaveNext == CallCalculateWaveParams

SpecWave == WaveInit /\ [][WaveNext]_vars

----------------------------------------------------------------------------
(* A direct call of points_to_path_commands *)

PathPoints ==
    {<<xx, y>> : xx \in 0 .. 2, y \in {-12345, -20, 0, 5961, 20000, 123456}}

PathInputs == UNION {[1 .. n -> PathPoints] : n \in 0 .. PathMaxPoints}

\* The argument is drawn here.
PathInit ==
    /\ cfg \in CliConfigs
    /\ \E pts \in PathInputs : path_d = [called |-> FALSE, points |-> pts]
    /\ img = NoImage /\ pc = "call" /\ row = 0 /\ x = 0 /\ points = <<>>
    /\ svg_lines = <<>> /\ out_file = Absent /\ stderr = <<>>
    /\ exit_code = NoExit /\ wave = NoCall /\ slots = <<>>

CallPointsToPathCommands ==
    /\ pc = "call"
    /\ path_d' = [called |-> TRUE, points |-> path_d.points,
                  result |-> PointsToPathCommands(path_d.points)]
    /\ pc' = "returned"
    /\ UNCHANGED <<cfg, img, row, x, points, svg_lines, out_file, stderr,
                   exit_code, wave, slots>>

PathNext == CallPointsToPathCommands

SpecPath == PathInit /\ [][PathNext]_vars

----------------------------------------------------------------------------
(* A call of generate_row_path, column by column *)

RowInit ==
    /\ cfg \in RowConfigs
    /\ img \in RowImages
    /\ row \in 0 .. img.height - 1
    /\ pc = "loop" /\ x = 0 /\ points = <<>>
    /\ svg_lines = <<>> /\ out_file = Absent /\ stderr = <<>>
    /\ exit_code = NoExit /\ wave = NoCall /\ path_d = NoCall /\ slots = <<>>

\* An iteration that takes the white branch (append or skip, then continue).
WhitePixel ==
    /\ pc = "loop" /\ x < img.width
    /\ IsWhite(cfg, Pixel(img, x, row))
    /\ points' = RowStep(cfg, img, points, x, row)
    /\ x' = x + 1
    /\ UNCHANGED <<cfg, img, pc, row, svg_lines, out_file, stderr, exit_code,
                   wave, path_d, slots>>

\* An iteration that calls calculate_wave_params and appends its point.
DarkPixel ==
    /\ pc = "loop" /\ x < img.width
    /\ ~IsWhite(cfg, Pixel(img, x, row))
    /\ wave' = WaveCall(Darkness(Pixel(img, x, row)), x, row)
    /\ points' = RowStep(cfg, img, points, x, row)
    /\ x' = x + 1
    /\ UNCHANGED <<cfg, img, pc, row, svg_lines, out_file, stderr, exit_code,
                   path_d, slots>>

\* The loop is over: return points.
ReturnPoints ==
    /\ pc = "loop" /\ x = img.width
    /\ pc' = "returned"
    /\ UNCHANGED <<cfg, img, row, x, points, svg_lines, out_file, stderr,
                   exit_code, wave, path_d, slots>>

RowNext == WhitePixel \/ DarkPixel \/ ReturnPoints

SpecRow == RowInit /\ [][RowNext]_vars

----------------------------------------------------------------------------
(* main: a run of the command line *)

SvgInit ==
    /\ cfg \in CliConfigs
    /\ out_file \in {Absent, OldFile}
    /\ img = NoImage /\ pc = "main" /\ row = 0 /\ x = 0 /\ points = <<>>
    /\ svg_lines = <<>> /\ stderr = <<>>
    /\ exit_code = NoExit /\ wave = NoCall /\ path_d = NoCall /\ slots = <<>>

\* print(..., file=sys.stderr); sys.exit(1)
ExitWithError(message) ==
    /\ stderr' = Append(stderr, message)
    /\ exit_code' = 1
    /\ pc' = "exited"

\* The input path does not exist.
InputNotFound ==
    /\ pc = "main"
    /\ ExitWithError("Error: Input file not found")
    /\ UNCHANGED <<cfg, img, row, x, points, svg_lines, out_file, wave,
                   path_d, slots>>

\* load_and_preprocess_image raises: the file is no image.
DecodeFails ==
    /\ pc = "main"
    /\ ExitWithError("Error during conversion")
    /\ UNCHANGED <<cfg, img, row, x, points, svg_lines, out_file, wave,
                   path_d, slots>>

\* The image is decoded and generate_svg starts its document.
LoadImage ==
    /\ pc = "main"
    /\ \E g \in SvgImages : img' = g /\ svg_lines' = SvgHeader(cfg, g)
    /\ row' = 0
    /\ pc' = "rows"
    /\ UNCHANGED <<cfg, x, points, out_file, stderr, exit_code, wave, path_d,
                   slots>>

\* One iteration of generate_svg's row loop.
SvgRowIteration ==
    /\ pc = "rows" /\ row < img.height
    /\ points' = GenerateRowPath(cfg, img, row, img.width)
    /\ svg_lines' = SvgRow(cfg, img, svg_lines, row)
    /\ row' = row + 1
    /\ UNCHANGED <<cfg, img, pc, x, out_file, stderr, exit_code, wave, path_d,
                   slots>>

\* An exception inside the row loop (MemoryError, say) reaches main.
RowRaises ==
    /\ pc = "rows" /\ row < img.height
    /\ ExitWithError("Error during conversion")
    /\ UNCHANGED <<cfg, img, row, x, points, svg_lines, out_file, wave,
                   path_d, slots>>

\* The row loop is over: the closing lines.
CloseDocument ==
    /\ pc = "rows" /\ row = img.height
    /\ svg_lines' = SvgClose(svg_lines)
    /\ pc' = "write"
    /\ UNCHANGED <<cfg, img, row, x, points, out_file, stderr, exit_code,
                   wave, path_d, slots>>

\* open(output_path, 'w') raises: the path is left as it was.
OpenFails ==
    /\ pc = "write"
    /\ ExitWithError("Error during conversion")
    /\ UNCHANGED <<cfg, img, row, x, points, svg_lines, out_file, wave,
                   path_d, slots>>

\* open(output_path, 'w') creates or truncates the file, then the write (or
\* the flush on close) raises after some of the lines: the disk is full.
WriteFails ==
    /\ pc = "write"
    /\ \E k \in 0 .. Len(svg_lines) - 1 :
           out_file' = [exists |-> TRUE, content |-> SubSeq(svg_lines, 1, k)]
    /\ ExitWithError("Error during conversion")
    /\ UNCHANGED <<cfg, img, row, x, points, svg_lines, wave, path_d, slots>>

\* The document is written; convert and main return.
WriteFile ==
    /\ pc = "write"
    /\ out_file' = [exists |-> TRUE, content |-> svg_lines]
    /\ exit_code' = 0
    /\ pc' = "exited"
    /\ UNCHANGED <<cfg, img, row, x, points, svg_lines, stderr, wave, path_d,
                   slots>>

SvgNext ==
    \/ InputNotFound \/ DecodeFails \/ LoadImage \/ SvgRowIteration
    \/ RowRaises \/ CloseDocument \/ OpenFails \/ WriteFails \/ WriteFile

SpecSvg == SvgInit /\ [][SvgNext]_vars

----------------------------------------------------------------------------
(* The rows computed in any order, column steps interleaved, then        *)
(* assembled by row number.                                               *)

AnyOrderInit ==
    /\ cfg \in CliConfigs
    /\ img \in SvgImages
    /\ slots = [r \in 1 .. img.height |-> [x |-> 0, points |-> <<>>]]
    /\ pc = "rows" /\ row = 0 /\ x = 0 /\ points = <<>>
    /\ svg_lines = <<>> /\ out_file = Absent /\ stderr = <<>>
    /\ exit_code = NoExit /\ wave = NoCall /\ path_d = NoCall

\* The next column of some unfinished row; row remembers which.
StepRow ==
    /\ pc = "rows"
    /\ \E r \in 0 .. img.height - 1 :
           /\ slots[r + 1].x < img.width
           /\ slots' = [slots EXCEPT ![r + 1] =
                  [x |-> @.x + 1,
                   points |-> RowStep(cfg, img, @.points, @.x, r)]]
           /\ row' = r
    /\ UNCHANGED <<cfg, img, pc, x, points, svg_lines, out_file, stderr,
                   exit_code, wave, path_d>>

\* svg_lines after the slots of rows 0 .. n-1, in index order.
RECURSIVE CollectRows(_, _, _, _)
CollectRows(c, g, filled, n) ==
    IF n = 0 THEN SvgHeader(c, g)
    ELSE AppendPath(CollectRows(c, g, filled, n - 1), filled[n].points)

\* Every row is done: assemble the document.
Collect ==
    /\ pc = "rows"
    /\ \A r \in 1 .. img.height : slots[r].x = img.width
    /\ svg_lines' = SvgClose(CollectRows(cfg, img, slots, img.height))
    /\ pc' = "collected"
    /\ UNCHANGED <<cfg, img, row, x, points, out_file, stderr, exit_code,
                   wave, path_d, slots>>

AnyOrderNext == StepRow \/ Collect

SpecAnyOrder == AnyOrderInit /\ [][AnyOrderNext]_vars

----------------------------------------------------------------------------
(* Properties of generate_row_path (SpecRow) *)

\* A call of generate_row_path is running or has returned.
InRowCall == pc \in {"loop", "returned"}

\* The brightness of column k of the row being generated.
Column(k) == img.px[row + 1][k + 1]

\* The columns visited so far are all white / all non-white.
WhiteSoFar == \A k \in 0 .. x - 1 : Column(k) >= cfg.white_threshold
DarkSoFar == \A k \in 0 .. x - 1 : Column(k) < cfg.white_threshold

C2_WhiteAfterDarkAlwaysAppends ==
    (InRowCall /\ x >= 2
     /\ Column(x - 1) >= cfg.white_threshold
     /\ Column(x - 2) < cfg.white_threshold)
        => LET n == Len(points)
           IN  /\ n >= 2
               /\ points[n] = <<x - 1, row * cfg.line_spacing>>
               /\ points[n - 1][1] = x - 2
               /\ (x >= 3 /\ Column(x - 3) >= cfg.white_threshold)
                      => (n >= 3 /\ points[n - 2][2] = row * cfg.line_spacing)

\* C2 as amended: the de-duplication compares the y of the last point with
\* yBase, so a white pixel right after a non-white pixel appends a flat
\* point (x, yBase) exactly when the non-white pixel's point is off yBase;
\* when that point lies on yBase the white pixel appends nothing.
C2_WhiteAfterDarkAppendsIffOffBase ==
    (InRowCall /\ x >= 2
     /\ Column(x - 1) >= cfg.white_threshold
     /\ Column(x - 2) < cfg.white_threshold)
        => LET n == Len(points)
               yb == row * cfg.line_spacing
           IN  \/ /\ n >= 2
                  /\ points[n] = <<x - 1, yb>>
                  /\ points[n - 1][1] = x - 2
                  /\ points[n - 1][2] # yb
               \/ /\ n >= 1
                  /\ points[n][1] = x - 2
                  /\ points[n][2] = yb

C2_Witness ==
    /\ InRowCall /\ x >= 3
    /\ Column(x - 1) >= cfg.white_threshold
    /\ Column(x - 2) < cfg.white_threshold
    /\ points[Len(points)] = <<x - 2, row * cfg.line_spacing>>

\* C3: at every step of the column loop the list has at most one point per
\* column visited (so at most width on return) and its x-coordinates do
\* not decrease, and a step only appends: the points already there stay.
RowPathShape ==
    InRowCall =>
        /\ Len(points) <= x /\ x <= img.width
        /\ \A i \in 1 .. Len(points) - 1 : points[i][1] <= points[i + 1][1]

RowPathGrows ==
    pc = "loop" =>
        /\ Len(points') \in {Len(points), Len(points) + 1}
        /\ SubSeq(points', 1, Len(points)) = points

C3_AppendOnlyBoundedOrdered == [][RowPathGrows]_vars /\ []RowPathShape

C3_Witness ==
    /\ pc = "returned" /\ Len(points) >= 2 /\ Len(points) < img.width

\* C4: a row with no pixel at or above whiteThreshold returns exactly width
\* points with x = 0, 1, ..., width-1 in that order, one per pixel, also
\* when a pixel's point lies on yBase.
C4_NoWhiteRowHasEveryColumn ==
    (pc = "returned" /\ DarkSoFar)
        => /\ Len(points) = img.width
           /\ \A i \in 1 .. Len(points) : points[i][1] = i - 1

C4_Witness ==
    /\ pc = "returned" /\ img.width >= 2 /\ DarkSoFar
    /\ Len(points) = img.width
    /\ \E i \in 2 .. Len(points) :
           /\ points[i][2] = row * cfg.line_spacing
           /\ points[i - 1][2] = row * cfg.line_spacing

\* C10: darkness is below the cutoff 0.02 exactly for brightness 250..255.
\* With whiteThreshold <= 250 generate_row_path never calls
\* calculate_wave_params with darkness < 0.02 and never gets (0, 0).  With
\* whiteThreshold > 250 a pixel of brightness 250..whiteThreshold-1 goes
\* through the non-white branch, gets (0, 0) and appends (x, yBase).
C10_CutoffIsBrightness250 ==
    /\ \A b \in 0 .. MaxBrightness :
           (Darkness(b) < MIN_DARKNESS_THRESHOLD) <=> (b >= 250)
    /\ (InRowCall /\ cfg.white_threshold <= 250 /\ wave.called)
           => (wave.darkness >= MIN_DARKNESS_THRESHOLD /\ wave.result # <<0, 0>>)
    /\ (InRowCall /\ cfg.white_threshold > 250 /\ x >= 1
        /\ Column(x - 1) \in 250 .. cfg.white_threshold - 1)
           => /\ wave.called /\ wave.x = x - 1 /\ wave.result = <<0, 0>>
              /\ Len(points) >= 1
              /\ points[Len(points)] = <<x - 1, row * cfg.line_spacing>>

C10_Witness ==
    /\ InRowCall /\ cfg.white_threshold > 250 /\ x >= 2
    /\ Column(x - 1) \in 250 .. cfg.white_threshold - 1
    /\ wave.called /\ wave.result = <<0, 0>>
    /\ Len(points) >= 2
    /\ points[Len(points)] = <<x - 1, row * cfg.line_spacing>>
    /\ points[Len(points) - 1][2] = row * cfg.line_spacing

----------------------------------------------------------------------------
(* Properties of calculate_wave_params (SpecWave) *)

\* C9 as claimed: for any finite maxAmplitude the returned amplitude and
\* frequencyFactor are both >= 0.
C9_ParamsNonNegativeForAnyAmplitude ==
    wave.called => (wave.result[1] >= 0 /\ wave.result[2] >= 0)

\* C9 as amended: frequencyFactor is >= 0 for every configuration and
\* amplitude is >= 0 whenever maxAmplitude >= 0; the noise of organic mode
\* stays within [-0.2, 0.2], so its factors 1 + noise*0.3 and 1 + noise*0.2
\* are positive.
C9_ParamsNonNegativeForNonNegativeAmplitude ==
    wave.called =>
        /\ wave.result[2] >= 0
        /\ cfg.max_amplitude >= 0 => wave.result[1] >= 0
        /\ LET noise == OrganicNoise(wave.x, wave.row)
           IN  /\ noise >= -ORGANIC_NOISE_SCALE /\ noise <= ORGANIC_NOISE_SCALE
               /\ Unit + Mul(noise, ORGANIC_AMPLITUDE_VAR) > 0
               /\ Unit + Mul(noise, ORGANIC_FREQUENCY_VAR) > 0

C9_Witness ==
    /\ wave.called /\ cfg.organic_mode /\ cfg.max_amplitude > 0
    /\ wave.darkness >= MIN_DARKNESS_THRESHOLD
    /\ OrganicNoise(wave.x, wave.row) < 0
    /\ wave.result[1] > 0 /\ wave.result[2] > 0

----------------------------------------------------------------------------
(* Properties of points_to_path_commands (SpecPath) *)

\* The index of the first space of s, 0 when it has none.
RECURSIVE FirstSpace(_, _)
FirstSpace(s, i) ==
    IF i > Len(s) THEN 0
    ELSE IF s[i] = " " THEN i
    ELSE FirstSpace(s, i + 1)

\* The tokens of s between its spaces.
RECURSIVE SplitSpace(_)
SplitSpace(s) ==
    LET i == FirstSpace(s, 1)
    IN  IF i = 0 THEN <<s>>
        ELSE <<SubSeq(s, 1, i - 1)>> \o SplitSpace(SubSeq(s, i + 1, Len(s)))

\* C6: the empty list gives the empty string; n >= 1 points give n
\* commands separated by spaces, "M x,y" for the first point and "L x,y"
\* for each later one, in the order of the points; the single point (0, 0)
\* gives "M 0.00,0.00".
C6_OneCommandPerPoint ==
    path_d.called =>
        LET pts == path_d.points
            d == path_d.result
            t == SplitSpace(d)
        IN  /\ Len(pts) = 0 => d = <<>>
            /\ Len(pts) >= 1 =>
                   /\ Len(t) = 2 * Len(pts)
                   /\ \A i \in 1 .. Len(pts) :
                          /\ t[2 * i - 1] = <<IF i = 1 THEN "M" ELSE "L">>
                          /\ t[2 * i] = Fmt2(pts[i][1] * Unit) \o <<",">>
                                            \o Fmt2(pts[i][2])
            /\ pts = << <<0, 0>> >> =>
                   d = <<"M", " ", "0", ".", "0", "0", ",", "0", ".", "0", "0">>

C6_Witness ==
    /\ path_d.called /\ Len(path_d.points) = 2
    /\ path_d.points[1] # path_d.points[2]
    /\ Len(SplitSpace(path_d.result)) = 4
    /\ path_d.result[1] = "M"

----------------------------------------------------------------------------
(* Properties of generate_svg and main (SpecSvg) *)

PathLines(lines) == SelectSeq(lines, LAMBDA l : l.kind = "path")

\* generate_svg has started its document.
InGenerateSvg == pc \in {"rows", "write"} \/ (pc = "exited" /\ svg_lines # <<>>)

\* The row loop is over: the closing lines are there.
SvgLoopOver == svg_lines # <<>> /\ svg_lines[Len(svg_lines)].kind = "/svg"

\* C5: generate_svg emits at most H path elements: after `row` rows there
\* are `row` of them when W >= 1 and none when W = 0, so H (or 0) once the
\* loop is over; element i is the path of row i-1 (it starts at
\* x = 0.00, y = (i-1) * lineSpacing), and no element is empty.
C5_OnePathPerRowInOrder ==
    InGenerateSvg =>
        LET paths == PathLines(svg_lines)
        IN  /\ Len(paths) <= img.height
            /\ Len(paths) = (IF img.width >= 1 THEN row ELSE 0)
            /\ SvgLoopOver => row = img.height
            /\ \A i \in 1 .. Len(paths) :
                   LET start == <<"M", " ", "0", ".", "0", "0", ",">>
                                    \o Fmt2((i - 1) * cfg.line_spacing)
                   IN  /\ Len(paths[i].text) >= Len(start)
                       /\ SubSeq(paths[i].text, 1, Len(start)) = start
                       /\ paths[i].text = PointsToPathCommands(
                              GenerateRowPath(cfg, img, i - 1, img.width))

C5_Witness ==
    /\ pc = "exited" /\ exit_code = 0
    /\ img.height >= 2 /\ img.width >= 1
    /\ Len(PathLines(svg_lines)) = img.height
    /\ \E r \in 1 .. img.height : \A k \in 1 .. img.width : img.px[r][k] = MaxBrightness

\* C7: a run that fails prints one error, exits non-zero and leaves the
\* output path as it found it; a run exits 0 only with the complete
\* document written there.
C7_FailureLeavesNoPartialOutput ==
    pc = "exited" =>
        IF exit_code = 0
        THEN /\ out_file = [exists |-> TRUE, content |-> SvgDocument(cfg, img)]
             /\ stderr = <<>>
        ELSE /\ exit_code > 0
             /\ Len(stderr) = 1
             /\ out_file \in {Absent, OldFile}

----------------------------------------------------------------------------
(* Row independence (SpecAnyOrder) *)

\* Image g with every row but row r filled with one brightness.
OtherRowsFilled(g, r, level) ==
    [g EXCEPT !.px = [i \in 1 .. g.height |->
                         IF i = r + 1 THEN g.px[i]
                         ELSE [k \in 1 .. g.width |-> level]]]

\* The points of every row are those of its own pixels, whatever the other
\* rows hold, and the assembled document is the sequential loop's.
RowsIndependent ==
    /\ \A r \in 0 .. img.height - 1 : \A level \in SvgLevels :
           slots[r + 1].points =
               GenerateRowPath(cfg, OtherRowsFilled(img, r, level), r,
                               slots[r + 1].x)
    /\ pc = "collected" => svg_lines = SvgDocument(cfg, img)

InputsUnchanged == img' = img /\ cfg' = cfg

\* C8: the path of row r depends only on row r's pixels and on the
\* configuration (it is the same on every image that agrees on row r);
\* computing the rows in any order, their steps interleaved, and
\* assembling by row number gives the document of the sequential loop; no
\* step changes the image or the configuration.
C8_RowsIndependentOfOrder == []RowsIndependent /\ [][InputsUnchanged]_vars

C8_Witness ==
    /\ pc = "collected" /\ img.height >= 2 /\ img.width >= 1
    /\ row = 0
    /\ img.px[1] # img.px[2]
    /\ svg_lines = SvgDocument(cfg, img)

=============================================================================
